---- MODULE Spec2Model ----
(***************************************************************************)
(* A model of src/TestStuff.c++: eight gtest test units, two fixtures      *)
(* (VectorTest, ArrayEquals) and the checks of every test body, run by the *)
(* test engine one unit at a time in an order the engine chooses.          *)
(*                                                                         *)
(* Three specifications share the module:                                  *)
(*   Spec      the engine running the suite step by step;                  *)
(*   SpecPair  two runs of the suite side by side, a whole unit per step,  *)
(*             each run in its own order (order independence);             *)
(*   SpecEq    std::equal called on two arrays of three ints.              *)
(*                                                                         *)
(* Numbers: a floating-point literal is kept exact as an integer count of  *)
(* 1e-7 (Decimal units per 1). The doubles the compiler makes of 2.00001   *)
(* and 2.000011 differ from the decimals by less than 1e-15, far below     *)
(* every tolerance they are compared against here.                         *)
(***************************************************************************)
EXTENDS Integers, Sequences, FiniteSets, TLC

VARIABLES
    started,    \* units the engine has begun to run
    cur,        \* the unit being run, or NoUnit
    phase,      \* where the engine is in the current unit's lifecycle
    pc,         \* index of the next check of the current body
    fixture,    \* the storage of the current unit's test object
    failed,     \* HasFailure() of the current unit
    results,    \* per unit, the result of every check executed, in order
    outcome,    \* per unit: "none", "passed" or "failed"
    events,     \* per unit, its lifecycle events in order
    lastEvent,  \* the last lifecycle event of the run, <<unit, event>>
    prevEvent,  \* the lifecycle event before lastEvent
    runs,       \* per unit, how many times its body was entered
    exit,       \* -1 while running, then the process exit status
    runA, runB, \* SpecPair: the two runs, each [done, outcome, fixture]
    eqW, eqV,   \* SpecEq: the two arrays
    eqRes       \* SpecEq: << >>, or <<b>> once std::equal has returned b

runVars  == <<started, cur, phase, pc, fixture, failed, results, outcome,
              events, lastEvent, prevEvent, runs, exit>>
pairVars == <<runA, runB>>
eqVars   == <<eqW, eqV, eqRes>>
vars     == <<runVars, pairVars, eqVars>>

-----------------------------------------------------------------------------
(* The registered test units, in the order of the source file.             *)

Units ==
    << "SampleTestCase.SampleTest",
       "SampleTestCase.AnotherTest",
       "OtherTestCase.SampleTest",
       "OtherTestCase.SampleTestFail",
       "VectorTest.SampleVectorTest",
       "VectorTest.SecondVectorTest",
       "AssertionTypes.ShowAssertionTypes",
       "ArrayEquals.ArrayEqualsTest" >>

UnitSet == { Units[k] : k \in 1..Len(Units) }

NoUnit == "NoUnit"

(* The class of the test object of a unit: TEST_F names the fixture class, *)
(* TEST derives its object from ::testing::Test directly.                  *)
FixtureClass(u) ==
    CASE u \in {"VectorTest.SampleVectorTest", "VectorTest.SecondVectorTest"}
             -> "VectorTest"
      [] u = "ArrayEquals.ArrayEqualsTest" -> "ArrayEquals"
      [] OTHER -> "Test"

-----------------------------------------------------------------------------
(* Fixture objects.                                                        *)

NoInstance == [kind |-> "none", live |-> FALSE, v |-> << >>]

(* A newly constructed test object: VectorTest's v is an empty vector,     *)
(* ArrayEquals' v is the array {1, 2, 3}, a plain test has no members.     *)
NewInstance(cls) ==
    [kind |-> cls, live |-> TRUE,
     v |-> IF cls = "ArrayEquals" THEN <<1, 2, 3>> ELSE << >>]

push_back(vec, x) == Append(vec, x)

size(vec) == Len(vec)

(* vec[i] with C++'s 0-based index; the bodies only index after a fatal    *)
(* size check, so the index is in range whenever this is evaluated.        *)
at(vec, i) == vec[i + 1]

(* Variant: the object of the previous unit is reused when it has the     *)
(* class the unit needs.                                                   *)
CreateTest_shared(prev, u) ==
    IF prev.kind = FixtureClass(u)
    THEN [prev EXCEPT !.live = TRUE]
    ELSE NewInstance(FixtureClass(u))

(* A unit's test object is created for that unit: whatever object the      *)
(* previous unit had (prev) is not reused.                                 *)
CreateTest(prev, u) == NewInstance(FixtureClass(u))

(* Variants: SetUp appends only 0 and 1; SetUp appends 0, 2, 1.            *)
VectorTest_SetUp_short(f) ==
    [f EXCEPT !.v = push_back(push_back(f.v, 0), 1)]

VectorTest_SetUp_swapped(f) ==
    [f EXCEPT !.v = push_back(push_back(push_back(f.v, 0), 2), 1)]

VectorTest_SetUp(f) ==
    [f EXCEPT !.v = push_back(push_back(push_back(f.v, 0), 1), 2)]

VectorTest_TearDown(f) == f

(* The SetUp / TearDown hook of the object's class; ::testing::Test's own  *)
(* hooks, which ArrayEquals and plain tests inherit, do nothing.           *)
SetUpHook(f) == IF f.kind = "VectorTest" THEN VectorTest_SetUp(f) ELSE f

TearDownHook(f) == IF f.kind = "VectorTest" THEN VectorTest_TearDown(f) ELSE f

DeleteTest(f) == [f EXCEPT !.live = FALSE]

-----------------------------------------------------------------------------
(* The comparisons behind the assertion macros.                            *)

EQ(a, b) == a = b
NE(a, b) == a # b
LT(a, b) == a < b
LE(a, b) == a <= b
GT(a, b) == a > b
GE(a, b) == a >= b

(* Floating-point literals, in units of 1e-7.                              *)
Decimal == 10000000

Lit_2_0      == 2 * Decimal
Lit_2_00001  == 2 * Decimal + 100
Lit_2_000011 == 2 * Decimal + 110
Lit_1em7     == 1

(* The float nearest to a literal x in [2, 4), as its integer multiple of  *)
(* the float spacing 2^-22 there (the sign-and-magnitude bits, up to the   *)
(* common exponent): 2^23 + round((x - 2) * 2^22).                         *)
FloatBits(x) ==
    LET r == x - 2 * Decimal
    IN  8388608 + ((2 * r * 4194304 + Decimal) \div (2 * Decimal))

fabs(x) == IF x < 0 THEN -x ELSE x

(* FloatingPoint<float>::AlmostEquals: at most kMaxUlps floats apart.      *)
kMaxUlps == 4

FLOAT_EQ(a, b) == fabs(FloatBits(a) - FloatBits(b)) <= kMaxUlps

(* Two decimal literals of at most seven places are the same double, or    *)
(* are more than 1e-8 apart, which is millions of double ulps at 2.0.      *)
DOUBLE_EQ(a, b) == a = b

(* Variant: the difference is compared without its absolute value.         *)
NEAR_signed(a, b, abs_error) == a - b <= abs_error

(* DoubleNearPredFormat: diff = fabs(val1 - val2); diff <= abs_error.      *)
NEAR(a, b, abs_error) == fabs(a - b) <= abs_error

(* C strings are sequences of characters.                                  *)
UpperCase == <<"A","B","C","D","E","F","G","H","I","J","K","L","M",
               "N","O","P","Q","R","S","T","U","V","W","X","Y","Z">>
LowerCase == <<"a","b","c","d","e","f","g","h","i","j","k","l","m",
               "n","o","p","q","r","s","t","u","v","w","x","y","z">>

tolower(c) ==
    IF \E k \in 1..Len(UpperCase) : UpperCase[k] = c
    THEN LowerCase[CHOOSE k \in 1..Len(UpperCase) : UpperCase[k] = c]
    ELSE c

STREQ(s, t) == s = t
STRNE(s, t) == s # t
STRCASEEQ(s, t) ==
    /\ Len(s) = Len(t)
    /\ \A k \in 1..Len(s) : tolower(s[k]) = tolower(t[k])
STRCASENE(s, t) == ~STRCASEEQ(s, t)

(* Variant: the last position of the range is not compared.                *)
RECURSIVE std_equal_short(_, _, _, _)
std_equal_short(w, first1, last1, v) ==
    IF first1 >= last1 - 1 THEN TRUE
    ELSE IF w[first1 + 1] # v[first1 + 1] THEN FALSE
    ELSE std_equal_short(w, first1 + 1, last1, v)

(* std::equal(first1, last1, first2) on arrays w and v, both iterators     *)
(* advancing together from offset first1: false at the first mismatch.     *)
RECURSIVE std_equal(_, _, _, _)
std_equal(w, first1, last1, v) ==
    IF first1 = last1 THEN TRUE
    ELSE IF w[first1 + 1] # v[first1 + 1] THEN FALSE
    ELSE std_equal(w, first1 + 1, last1, v)

-----------------------------------------------------------------------------
(* The test bodies: check number i of a body run on the test object f.     *)

ASSERT(ok) == [fatal |-> TRUE,  ok |-> ok]
EXPECT(ok) == [fatal |-> FALSE, ok |-> ok]

SampleTestCase_SampleTest(i, f)  == ASSERT(EQ(1, 1))
SampleTestCase_AnotherTest(i, f) == ASSERT(EQ(2, 2))
OtherTestCase_SampleTest(i, f)   == ASSERT(EQ(2, 2))
OtherTestCase_SampleTestFail(i, f) == ASSERT(EQ(1, 2))

VectorTest_SampleVectorTest(i, f) ==
    CASE i = 1 -> ASSERT(EQ(3, size(f.v)))
      [] i = 2 -> EXPECT(EQ(0, at(f.v, 0)))
      [] i = 3 -> EXPECT(EQ(1, at(f.v, 1)))
      [] i = 4 -> EXPECT(EQ(2, at(f.v, 2)))

VectorTest_SecondVectorTest(i, f) ==
    CASE i = 1 -> EXPECT(EQ(4, size(f.v)))
      [] i = 2 -> ASSERT(EQ(3, size(f.v)))

AssertionTypes_ShowAssertionTypes(i, f) ==
    CASE i = 1  -> ASSERT(TRUE = TRUE)
      [] i = 2  -> ASSERT(FALSE = FALSE)
      [] i = 3  -> ASSERT(EQ(1, 1))
      [] i = 4  -> ASSERT(NE(1, 2))
      [] i = 5  -> ASSERT(LT(1, 2))
      [] i = 6  -> ASSERT(LE(1, 2))
      [] i = 7  -> ASSERT(GT(2, 1))
      [] i = 8  -> ASSERT(GE(2, 1))
      [] i = 9  -> ASSERT(FLOAT_EQ(Lit_2_0, Lit_2_0))
      [] i = 10 -> ASSERT(DOUBLE_EQ(Lit_2_0, Lit_2_0))
      [] i = 11 -> ASSERT(FLOAT_EQ(Lit_2_00001, Lit_2_000011))
      [] i = 12 -> ASSERT(NEAR(Lit_2_00001, Lit_2_000011, Lit_1em7))
      [] i = 13 -> ASSERT(STREQ(<<"h","i">>, <<"h","i">>))
      [] i = 14 -> ASSERT(STRNE(<<"h","i">>, <<"h","e","l","l","o">>))
      [] i = 15 -> ASSERT(STRCASEEQ(<<"h","i">>, <<"H","I">>))
      [] i = 16 -> ASSERT(STRCASENE(<<"H","I">>, <<"H","e","y">>))

ArrayEquals_ArrayEqualsTest(i, f) ==
    LET w == <<1, 2, 3>>
    IN  ASSERT(std_equal(w, 0, 3, f.v) = TRUE)

Body(u, i, f) ==
    CASE u = "SampleTestCase.SampleTest"   -> SampleTestCase_SampleTest(i, f)
      [] u = "SampleTestCase.AnotherTest"  -> SampleTestCase_AnotherTest(i, f)
      [] u = "OtherTestCase.SampleTest"    -> OtherTestCase_SampleTest(i, f)
      [] u = "OtherTestCase.SampleTestFail" -> OtherTestCase_SampleTestFail(i, f)
      [] u = "VectorTest.SampleVectorTest" -> VectorTest_SampleVectorTest(i, f)
      [] u = "VectorTest.SecondVectorTest" -> VectorTest_SecondVectorTest(i, f)
      [] u = "AssertionTypes.ShowAssertionTypes"
                                   -> AssertionTypes_ShowAssertionTypes(i, f)
      [] u = "ArrayEquals.ArrayEqualsTest" -> ArrayEquals_ArrayEqualsTest(i, f)

(* The number of checks written in each body.                              *)
NumChecks(u) ==
    CASE u = "VectorTest.SampleVectorTest" -> 4
      [] u = "VectorTest.SecondVectorTest" -> 2
      [] u = "AssertionTypes.ShowAssertionTypes" -> 16
      [] OTHER -> 1

(* Variants of what follows a check: every mismatch ends the body; no      *)
(* mismatch ends the body.                                                 *)
Continues_allFatal(c) == c.ok
Continues_noneFatal(c) == TRUE

(* After a check the body goes on unless a fatal check (the ASSERT family) *)
(* has mismatched; a non-fatal mismatch (the EXPECT family) lets it go on. *)
Continues(c) == c.ok \/ ~c.fatal

-----------------------------------------------------------------------------
(* The engine, one unit at a time.                                         *)

Lifecycle == <<"construct", "SetUp", "body", "TearDown", "destroy">>

NoEvent == <<NoUnit, "none">>

Record(u, e) ==
    /\ events' = [events EXCEPT ![u] = Append(@, e)]
    /\ lastEvent' = <<u, e>>
    /\ prevEvent' = lastEvent

RunInit ==
    /\ started = {}
    /\ cur = NoUnit
    /\ phase = "idle"
    /\ pc = 0
    /\ fixture = NoInstance
    /\ failed = FALSE
    /\ results = [u \in UnitSet |-> << >>]
    /\ outcome = [u \in UnitSet |-> "none"]
    /\ events = [u \in UnitSet |-> << >>]
    /\ lastEvent = NoEvent
    /\ prevEvent = NoEvent
    /\ runs = [u \in UnitSet |-> 0]
    /\ exit = -1

(* The units the engine may run next: each registered unit runs once, in   *)
(* an order the engine owns.                                               *)
Eligible(u) == u \notin started

(* Variant: the body may start on an object whose SetUp has not run.       *)
BodyReady_early(ph) == ph \in {"constructed", "setUp"}

(* The body starts once SetUp has returned.                                *)
BodyReady(ph) == ph = "setUp"

(* Variant: the run fails only when every unit failed.                     *)
ExitStatus_allFailed(out) ==
    IF \A u \in UnitSet : out[u] = "failed" THEN 1 ELSE 0

(* The exit status of the run: 1 when any unit failed, else 0.             *)
ExitStatus(out) ==
    IF \E u \in UnitSet : out[u] = "failed" THEN 1 ELSE 0

Construct(u) ==
    /\ phase = "idle"
    /\ exit = -1
    /\ Eligible(u)
    /\ started' = started \cup {u}
    /\ cur' = u
    /\ phase' = "constructed"
    /\ pc' = 0
    /\ fixture' = CreateTest(fixture, u)
    /\ failed' = FALSE
    /\ Record(u, "construct")
    /\ UNCHANGED <<results, outcome, runs, exit>>

SetUp ==
    /\ phase = "constructed"
    /\ fixture' = SetUpHook(fixture)
    /\ phase' = "setUp"
    /\ Record(cur, "SetUp")
    /\ UNCHANGED <<started, cur, pc, failed, results, outcome, runs, exit>>

EnterBody ==
    /\ BodyReady(phase)
    /\ phase' = "body"
    /\ pc' = 1
    /\ runs' = [runs EXCEPT ![cur] = @ + 1]
    /\ Record(cur, "body")
    /\ UNCHANGED <<started, cur, fixture, failed, results, outcome, exit>>

RunCheck ==
    /\ phase = "body"
    /\ LET c == Body(cur, pc, fixture)
       IN  /\ results' = [results EXCEPT ![cur] = Append(@, c.ok)]
           /\ failed' = (failed \/ ~c.ok)
           /\ IF Continues(c) /\ pc < NumChecks(cur)
              THEN pc' = pc + 1 /\ phase' = phase
              ELSE pc' = pc /\ phase' = "bodyDone"
    /\ UNCHANGED <<started, cur, fixture, outcome, events, lastEvent,
                   prevEvent, runs, exit>>

TearDown ==
    /\ phase = "bodyDone"
    /\ fixture' = TearDownHook(fixture)
    /\ phase' = "tornDown"
    /\ Record(cur, "TearDown")
    /\ UNCHANGED <<started, cur, pc, failed, results, outcome, runs, exit>>

Destroy ==
    /\ phase = "tornDown"
    /\ fixture' = DeleteTest(fixture)
    /\ outcome' = [outcome EXCEPT ![cur] = IF failed THEN "failed" ELSE "passed"]
    /\ phase' = "idle"
    /\ cur' = NoUnit
    /\ Record(cur, "destroy")
    /\ UNCHANGED <<started, pc, failed, results, runs, exit>>

Finish ==
    /\ phase = "idle"
    /\ exit = -1
    /\ \A u \in UnitSet : ~Eligible(u)
    /\ exit' = ExitStatus(outcome)
    /\ UNCHANGED <<started, cur, phase, pc, fixture, failed, results, outcome,
                   events, lastEvent, prevEvent, runs>>

-----------------------------------------------------------------------------
(* Two runs of the suite, a whole unit per step.                           *)

(* The results of the checks a body executes from check i on.              *)
RECURSIVE BodyResults(_, _, _)
BodyResults(u, i, f) ==
    LET c == Body(u, i, f)
    IN  <<c.ok>> \o (IF Continues(c) /\ i < NumChecks(u)
                     THEN BodyResults(u, i + 1, f)
                     ELSE << >>)

(* One unit from construction to destruction, after a unit that left the   *)
(* object prev: the unit's outcome and the object it leaves.               *)
RunUnit(prev, u) ==
    LET f0 == CreateTest(prev, u)
        f1 == SetUpHook(f0)
        rs == BodyResults(u, 1, f1)
        f2 == TearDownHook(f1)
    IN  [outcome |-> IF \E k \in 1..Len(rs) : ~rs[k] THEN "failed" ELSE "passed",
         fixture |-> DeleteTest(f2)]

NewRun == [done |-> {}, outcome |-> [u \in UnitSet |-> "none"],
           fixture |-> NoInstance]

StepRun(r, u) ==
    LET res == RunUnit(r.fixture, u)
    IN  [done |-> r.done \cup {u},
         outcome |-> [r.outcome EXCEPT ![u] = res.outcome],
         fixture |-> res.fixture]

PairInit == runA = NewRun /\ runB = NewRun

StepA(u) ==
    /\ u \notin runA.done
    /\ runA' = StepRun(runA, u)
    /\ UNCHANGED runB

StepB(u) ==
    /\ u \notin runB.done
    /\ runB' = StepRun(runB, u)
    /\ UNCHANGED runA

-----------------------------------------------------------------------------
(* std::equal on arrays of three ints.                                     *)

MaxVal == 3

Arrays == [1..3 -> 1..MaxVal]

EqInit == eqW = <<1, 2, 3>> /\ eqV = <<1, 2, 3>> /\ eqRes = << >>

EqCall ==
    /\ eqRes = << >>
    /\ eqRes' = <<std_equal(eqW, 0, 3, eqV)>>
    /\ UNCHANGED <<eqW, eqV>>

-----------------------------------------------------------------------------
(* The specifications.                                                     *)

Init == RunInit /\ PairInit /\ EqInit

Next ==
    \/ \E u \in UnitSet : Construct(u) /\ UNCHANGED <<pairVars, eqVars>>
    \/ SetUp /\ UNCHANGED <<pairVars, eqVars>>
    \/ EnterBody /\ UNCHANGED <<pairVars, eqVars>>
    \/ RunCheck /\ UNCHANGED <<pairVars, eqVars>>
    \/ TearDown /\ UNCHANGED <<pairVars, eqVars>>
    \/ Destroy /\ UNCHANGED <<pairVars, eqVars>>
    \/ Finish /\ UNCHANGED <<pairVars, eqVars>>

Spec == Init /\ [][Next]_vars

NextPair ==
    \/ \E u \in UnitSet : StepA(u) /\ UNCHANGED <<runVars, eqVars>>
    \/ \E u \in UnitSet : StepB(u) /\ UNCHANGED <<runVars, eqVars>>

SpecPair == Init /\ [][NextPair]_vars

InitEq == RunInit /\ PairInit /\ eqW \in Arrays /\ eqV \in Arrays /\ eqRes = << >>

NextEq == EqCall /\ UNCHANGED <<runVars, pairVars>>

SpecEq == InitEq /\ [][NextEq]_vars

-----------------------------------------------------------------------------
(* Properties.                                                             *)

SVT1 == "VectorTest.SampleVectorTest"
SVT2 == "VectorTest.SecondVectorTest"
FAIL == "OtherTestCase.SampleTestFail"
SAT  == "AssertionTypes.ShowAssertionTypes"
AET  == "ArrayEquals.ArrayEqualsTest"

Finished == exit # -1

(* The body of the current unit is running or has run on its object.       *)
InBody == phase \in {"body", "bodyDone"}

(* Whether check k of unit u is of the ASSERT family.                      *)
IsFatal(u, k) == Body(u, k, SetUpHook(NewInstance(FixtureClass(u)))).fatal

(* Whether unit u is marked failed, during its run or after it.            *)
MarkedFailed(u) == IF u = cur THEN failed ELSE outcome[u] = "failed"

IsPrefix(s, t) ==
    /\ Len(s) <= Len(t)
    /\ \A k \in 1..Len(s) : s[k] = t[k]

(* C1: whatever units ran before and in whatever order, a VectorTest unit  *)
(* is constructed as a new object with an empty v, and its body runs on    *)
(* v = [0, 1, 2]: nothing an earlier unit did to its fixture is seen.      *)
C1_FixtureIsolation ==
    \A u \in {SVT1, SVT2} :
        cur = u =>
            /\ phase = "constructed" => fixture = NewInstance("VectorTest")
            /\ InBody => /\ fixture.live
                         /\ fixture.kind = "VectorTest"
                         /\ fixture.v = <<0, 1, 2>>

(* The second VectorTest unit in its body right after the first one ran.   *)
C1_Witness ==
    /\ cur = SVT2
    /\ phase = "body"
    /\ started = {SVT1, SVT2}
    /\ outcome[SVT1] # "none"

(* C2: every unit's events are construct, SetUp, body, TearDown, destroy,  *)
(* once each and in that order; each event but construct directly follows  *)
(* the same unit's previous event, with no other unit's event in between;  *)
(* checks only run on an object whose SetUp has completed.                 *)
C2_LifecycleOrder ==
    /\ \A u \in UnitSet :
        /\ IsPrefix(events[u], Lifecycle)
        /\ outcome[u] # "none" => events[u] = Lifecycle
        /\ Len(results[u]) > 0 => IsPrefix(<<"construct", "SetUp", "body">>, events[u])
    /\ lastEvent # NoEvent =>
        LET u == lastEvent[1]
            n == Len(events[u])
        IN  /\ events[u][n] = lastEvent[2]
            /\ IF n = 1
               THEN prevEvent = NoEvent \/ prevEvent[2] = "destroy"
               ELSE prevEvent = <<u, events[u][n - 1]>>

(* A fixture unit destroyed after another unit had run before it.          *)
C2_Witness ==
    /\ lastEvent = <<SVT1, "destroy">>
    /\ events[SVT1] = Lifecycle
    /\ outcome[AET] # "none"

(* C3: a fatal check that mismatches is the last check its unit executes   *)
(* and marks the unit failed; the run still gives every unit an outcome:   *)
(* SampleTestFail's ASSERT_EQ(1, 2) fails and all units still run, and the *)
(* string checks after the failing ASSERT_NEAR never run.                  *)
C3_StopOnFailure ==
    /\ \A u \in UnitSet : \A k \in 1..Len(results[u]) :
        (IsFatal(u, k) /\ ~results[u][k]) =>
            /\ Len(results[u]) = k
            /\ MarkedFailed(u)
    /\ Len(results[SAT]) <= 12
    /\ Finished =>
        /\ \A u \in UnitSet : outcome[u] # "none" /\ Len(results[u]) > 0
        /\ results[FAIL] = <<FALSE>>

(* The run is over, after both fatal mismatches.                           *)
C3_Witness ==
    /\ Finished
    /\ outcome[FAIL] = "failed"
    /\ Len(results[SAT]) = 12
    /\ ~results[SAT][12]

(* C4: a non-fatal check that mismatches marks its unit failed for good,   *)
(* and the check after it is still executed; SecondVectorTest executes     *)
(* EXPECT_EQ(4, size) (mismatch), then ASSERT_EQ(3, size) (match), and     *)
(* ends failed.                                                            *)
C4_RecordAndContinue ==
    /\ \A u \in UnitSet : \A k \in 1..Len(results[u]) :
        (~IsFatal(u, k) /\ ~results[u][k]) =>
            /\ MarkedFailed(u)
            /\ (k < NumChecks(u) /\ ~(u = cur /\ phase = "body" /\ pc = k + 1))
                   => Len(results[u]) > k
    /\ outcome[SVT2] # "none" =>
        /\ results[SVT2] = <<FALSE, TRUE>>
        /\ outcome[SVT2] = "failed"

(* SecondVectorTest is over, both of its checks executed.                  *)
C4_Witness ==
    /\ outcome[SVT2] = "failed"
    /\ Len(results[SVT2]) = 2
    /\ ~results[SVT2][1]

(* C5: when the run is over every unit has an outcome and the exit status  *)
(* is failure exactly when some unit failed; a unit is failed exactly when *)
(* one of its checks mismatched, and no body is entered twice.             *)
C5_AggregateOutcome ==
    /\ Finished =>
        /\ \A u \in UnitSet : outcome[u] \in {"passed", "failed"}
        /\ (exit = 1) <=> (\E u \in UnitSet : outcome[u] = "failed")
        /\ exit \in {0, 1}
    /\ \A u \in UnitSet :
        /\ runs[u] <= 1
        /\ outcome[u] = "failed" => \E k \in 1..Len(results[u]) : ~results[u][k]
        /\ outcome[u] = "passed" => \A k \in 1..Len(results[u]) : results[u][k]

(* The run is over with a failing exit status and failed units.            *)
C5_Witness ==
    /\ exit = 1
    /\ \E u \in UnitSet : outcome[u] = "failed"
    /\ \E u \in UnitSet : outcome[u] = "passed"

(* C6: SampleVectorTest starts from an empty v; after SetUp v has size 3   *)
(* and v[i] = i for i = 0, 1, 2; its four checks all match and it passes.  *)
C6_SampleVectorTestPasses ==
    /\ cur = SVT1 =>
        /\ phase = "constructed" => size(fixture.v) = 0
        /\ phase \in {"setUp", "body", "bodyDone", "tornDown"} =>
            /\ size(fixture.v) = 3
            /\ \A i \in 0..2 : at(fixture.v, i) = i
    /\ \A k \in 1..Len(results[SVT1]) : results[SVT1][k]
    /\ outcome[SVT1] # "none" =>
        /\ results[SVT1] = <<TRUE, TRUE, TRUE, TRUE>>
        /\ outcome[SVT1] = "passed"

(* SampleVectorTest is over.                                               *)
C6_Witness ==
    /\ outcome[SVT1] = "passed"
    /\ Len(results[SVT1]) = 4

(* C7: std::equal(w, w + 3, v) returns true exactly when w[i] = v[i] for   *)
(* i = 0, 1, 2; on w = {1, 2, 3} and the fixture's v it returns true, so   *)
(* the check of ArrayEqualsTest matches.                                   *)
C7_ArrayEquality ==
    /\ eqRes # << >> =>
        (eqRes[1] <=> \A i \in 0..2 : eqW[i + 1] = eqV[i + 1])
    /\ ArrayEquals_ArrayEqualsTest(1, NewInstance("ArrayEquals")).ok

(* std::equal has returned on the arrays of the test.                      *)
C7_Witness ==
    /\ eqRes = <<TRUE>>
    /\ eqW = <<1, 2, 3>>
    /\ eqV = NewInstance("ArrayEquals").v

(* C8: ASSERT_NEAR(2.00001, 2.000011, 0.0000001), the twelfth check of     *)
(* ShowAssertionTypes, mismatches: the values are 0.000001 apart, ten      *)
(* times the tolerance; a near-check matches only when neither value       *)
(* exceeds the other by more than the tolerance.                           *)
C8_NearFails ==
    /\ Len(results[SAT]) >= 12 => ~results[SAT][12]
    /\ fabs(Lit_2_00001 - Lit_2_000011) = 10 * Lit_1em7
    /\ \A a \in {Lit_2_0, Lit_2_00001, Lit_2_000011} :
       \A b \in {Lit_2_0, Lit_2_00001, Lit_2_000011} :
       \A t \in {0, 1, 10, 100} :
            NEAR(a, b, t) => (a - b <= t /\ b - a <= t)

(* The near-check has been executed.                                       *)
C8_Witness ==
    /\ cur = SAT
    /\ Len(results[SAT]) = 12
    /\ results[SAT][11]
    /\ ~results[SAT][12]

(* C9, as claimed: when the run is over SampleTestFail is the only failed  *)
(* unit.                                                                   *)
C9_OnlyOneFails ==
    Finished =>
        \A u \in UnitSet : (outcome[u] = "failed") <=> (u = FAIL)

(* C9, amended: when the run is over exactly three units are failed,       *)
(* SampleTestFail, SecondVectorTest and ShowAssertionTypes; the other five *)
(* are passed.                                                             *)
C9_ThreeFail ==
    Finished =>
        \A u \in UnitSet :
            /\ (outcome[u] = "failed") <=> (u \in {FAIL, SVT2, SAT})
            /\ (outcome[u] = "passed") <=> (u \notin {FAIL, SVT2, SAT})

(* The run is over and every unit has its outcome.                         *)
C9_Witness ==
    /\ Finished
    /\ Cardinality({u \in UnitSet : outcome[u] = "failed"}) = 3
    /\ Cardinality({u \in UnitSet : outcome[u] = "passed"}) = 5

(* C10: two runs of the suite, each in an order of its own, give every     *)
(* unit the same outcome, and the same exit status once both are over.     *)
C10_OrderIndependence ==
    /\ \A u \in UnitSet :
        (runA.outcome[u] # "none" /\ runB.outcome[u] # "none")
            => runA.outcome[u] = runB.outcome[u]
    /\ (runA.done = UnitSet /\ runB.done = UnitSet)
            => ExitStatus(runA.outcome) = ExitStatus(runB.outcome)

(* Both runs are over, having ended on units of different fixtures.        *)
C10_Witness ==
    /\ runA.done = UnitSet
    /\ runB.done = UnitSet
    /\ runA.fixture.kind = "VectorTest"
    /\ runB.fixture.kind = "ArrayEquals"

====
